---- MODULE Spec2Model ----
(***************************************************************************)
(* The VoiceInterface component of src/mobile_app/app/index.tsx: the       *)
(* WebSocket handlers, startRecording, stopRecording, toggleMute and the   *)
(* 100 ms chunk timer.  Every async function is cut at its awaits: one     *)
(* action per synchronous segment, so that the event loop may dispatch any *)
(* other handler while a call is suspended.                                *)
(*                                                                         *)
(* Platform calls (expo-av, fetch, WebSocket) are not part of the          *)
(* repository: each may resolve or throw, nondeterministically.            *)
(*                                                                         *)
(* The batch script of src/unnamed/part_000 (floatTo16BitPCM,              *)
(* base64EncodeAudio, processAudio, connectToOpenAI) is modelled in its    *)
(* own section and runs under its own specification, BatchSpec.            *)
(***************************************************************************)
EXTENDS Naturals, Integers, Sequences, FiniteSets

\* ---- bounds of the model --------------------------------------------------
MaxRec == 2        \* recordings createAsync may hand out in one run
MaxBuf == 2        \* bytes a recording's file may grow to
MaxSent == 3       \* messages recorded on the wire
MaxStarts == 2     \* startRecording() calls suspended at the same time
MaxStops == 1      \* stopRecording(true) calls suspended at the same time
MaxTicks == 2      \* timer callbacks suspended at the same time

RecIds == 1..MaxRec
NoRec == 0         \* null (recording, recordingRef.current, meterInterval.current)

VARIABLES
    wsState,            \* ws.current.readyState, with the error event told apart
    wsConnected,        \* useState wsConnected
    mounted,            \* the component has not run its unmount cleanup
    isListening,        \* useState isListening
    isMuted,            \* useState isMuted
    recording,          \* useState recording (a recording id or NoRec)
    recordingRef,       \* recordingRef.current
    meterInterval,      \* meterInterval.current (a timer id or NoRec)
    lastProcessedSize,  \* lastProcessedSize.current
    timers,             \* intervals armed by setInterval and not yet cleared
    live,               \* recordings created and not yet stopped-and-unloaded
    bufSize,            \* bytes captured so far in each recording's file
    nextRec,            \* id of the next recording createAsync returns
    starts,             \* suspended startRecording() calls
    stops,              \* suspended stopRecording(true) calls
    ticks,              \* suspended timer callbacks, counted per recording read
    sent,               \* messages transmitted on the socket, in order
    last                \* the handler segment that ran last

vars == <<wsState, wsConnected, mounted, isListening, isMuted, recording,
          recordingRef, meterInterval, lastProcessedSize, timers, live,
          bufSize, nextRec, starts, stops, ticks, sent, last>>

\* The state of the batch script of src/unnamed/part_000 (modelled below); the
\* component never touches it.
VARIABLES
    node,               \* where connectToOpenAI and its open handler stand
    nodeWs,             \* the script's socket: readyState
    channelData,        \* audioBuffer.getChannelData(0) of ./output.wav
    bytes,              \* new Uint8Array(arrayBuffer) in base64EncodeAudio
    loopI,              \* the loop variable i of base64EncodeAudio
    binary,             \* the string binary, as its char codes
    base64AudioData,    \* what processAudio returned to the open handler
    wire                \* messages the script sent on its socket, in order

batchVars == <<node, nodeWs, channelData, bytes, loopI, binary,
               base64AudioData, wire>>

allVars == <<vars, batchVars>>

IdleCall == [pc |-> "idle", rec |-> NoRec, src |-> "none"]

StartSlots == 1..MaxStarts
StopSlots == 1..MaxStops

\* The first free slot of a table of suspended calls (0 when all are taken).
FreeSlot(table) ==
    IF \E i \in DOMAIN table : table[i].pc = "idle"
    THEN CHOOSE i \in DOMAIN table :
             /\ table[i].pc = "idle"
             /\ \A j \in DOMAIN table : table[j].pc = "idle" => i <= j
    ELSE 0

Init ==
    /\ wsState = "CONNECTING"
    /\ wsConnected = FALSE
    /\ mounted = TRUE
    /\ isListening = FALSE
    /\ isMuted = FALSE
    /\ recording = NoRec
    /\ recordingRef = NoRec
    /\ meterInterval = NoRec
    /\ lastProcessedSize = 0
    /\ timers = {}
    /\ live = {}
    /\ bufSize = [r \in RecIds |-> 0]
    /\ nextRec = 1
    /\ starts = [s \in StartSlots |-> IdleCall]
    /\ stops = [p \in StopSlots |-> IdleCall]
    /\ ticks = [r \in RecIds |-> 0]
    /\ sent = <<>>
    /\ last = "Init"

\* ---- React state --------------------------------------------------------
\* A state setter (setIsListening, setRecording, ...) stores its argument.
\* After the unmount cleanup nothing reads the React state any more (no render,
\* no effect, no toggleMute), so whether React still stores it there cannot be
\* observed; the refs, which suspended calls do read, are modelled exactly.

\* isListening as the closure of startRecording sees it.  onmessage is
\* assigned once, in the mount effect (deps []), and keeps the first render's
\* startRecording, whose isListening is the initial false; toggleMute is
\* rebound on every render and sees the committed value.
ClosureIsListening(src) == IF src = "ws" THEN FALSE ELSE isListening

\* toggleMute's setIsMuted(!isMuted) after its await: it started a recording
\* only with isMuted true and stopped one only with isMuted false.
AfterToggle(src, started) ==
    IF src = "toggle" THEN ~started ELSE isMuted

\* ---- the device (expo-av), as far as the component can observe it ---------
\* The microphone appends to the file of every recording that is live.
Capture(r) ==
    /\ r \in live
    /\ bufSize[r] < MaxBuf
    /\ bufSize' = [bufSize EXCEPT ![r] = @ + 1]
    /\ last' = "Capture"
    /\ UNCHANGED <<wsState, wsConnected, mounted, isListening, isMuted,
                   recording, recordingRef, meterInterval, lastProcessedSize,
                   timers, live, nextRec, starts, stops, ticks, sent>>
    /\ UNCHANGED batchVars

\* useEffect(() => { recordingRef.current = recording }, [recording]): a
\* passive effect, run by React some time after the render that setRecording
\* caused, not inside the handler that called setRecording.
RecordingRefEffect ==
    /\ mounted
    /\ recordingRef # recording
    /\ recordingRef' = recording
    /\ last' = "RefEffect"
    /\ UNCHANGED <<wsState, wsConnected, mounted, isListening, isMuted,
                   recording, meterInterval, lastProcessedSize, timers, live,
                   bufSize, nextRec, starts, stops, ticks, sent>>
    /\ UNCHANGED batchVars

\* ---- stopRecording ----------------------------------------------------------
\* if (meterInterval.current) { clearInterval(...); meterInterval.current = null }
ClearedTimers == timers \ {meterInterval}

\* A stopRecording whose reset sits after the await, inside the try: a throwing
\* release skips it.
StopFinallySkipped(resetListening) == isListening

\* A stopRecording whose finally resets the flag whatever its argument.
StopFinallyAlways(resetListening) == FALSE

\* finally { if (resetListening) setIsListening(false) }
StopFinally(resetListening) ==
    IF resetListening THEN FALSE ELSE isListening

\* stopRecording() with the default resetListening = true, up to its await (or
\* to its end, when recordingRef.current is null).
StopRecording(src) ==
    /\ timers' = ClearedTimers
    /\ meterInterval' = NoRec
    /\ \/ /\ recordingRef # NoRec
          /\ FreeSlot(stops) # 0
          /\ stops' = [stops EXCEPT ![FreeSlot(stops)] =
                          [pc |-> "unload", rec |-> recordingRef, src |-> src]]
          /\ last' = "StopBegun"
          /\ UNCHANGED <<isListening, isMuted>>
       \/ /\ recordingRef = NoRec
          /\ isListening' = StopFinally(TRUE)
          /\ isMuted' = AfterToggle(src, FALSE)
          /\ last' = "StopDone"
          /\ UNCHANGED stops
    /\ UNCHANGED <<wsState, wsConnected, mounted, recording, recordingRef,
                   lastProcessedSize, live, bufSize, nextRec, starts, ticks,
                   sent>>

\* await recordingRef.current.stopAndUnloadAsync() resolves or throws.
StopUnload(p) ==
    /\ stops[p].pc = "unload"
    /\ stops' = [stops EXCEPT ![p] = IdleCall]
    /\ isListening' = StopFinally(TRUE)
    /\ isMuted' = AfterToggle(stops[p].src, FALSE)
    /\ \/ /\ live' = live \ {stops[p].rec}
          /\ recording' = NoRec
          /\ lastProcessedSize' = 0
          /\ last' = "StopDone"
       \/ /\ last' = "StopFailed"
          /\ UNCHANGED <<live, recording, lastProcessedSize>>
    /\ UNCHANGED <<wsState, wsConnected, mounted, recordingRef, meterInterval,
                   timers, bufSize, nextRec, starts, ticks, sent>>
    /\ UNCHANGED batchVars

\* ---- startRecording ---------------------------------------------------------
InFlightStarts == Cardinality({s \in StartSlots : starts[s].pc # "idle"})

\* A startRecording whose catch only logs.
StartCatchOnlyLogs == isListening

\* catch (err) { setIsListening(false) }
StartCatch == FALSE

\* startRecording() up to its first await: the guard, setIsListening(true) and
\* the synchronous part of stopRecording(false).
StartRecording(src) ==
    \/ /\ ClosureIsListening(src)
       /\ isMuted' = AfterToggle(src, TRUE)
       /\ last' = "StartIgnored"
       /\ UNCHANGED <<wsState, wsConnected, mounted, isListening, recording,
                      recordingRef, meterInterval, lastProcessedSize, timers,
                      live, bufSize, nextRec, starts, stops, ticks, sent>>
    \/ /\ ~ClosureIsListening(src)
       /\ FreeSlot(starts) # 0
       /\ nextRec + InFlightStarts <= MaxRec
       /\ isListening' = TRUE
       /\ timers' = ClearedTimers
       /\ meterInterval' = NoRec
       /\ starts' = [starts EXCEPT ![FreeSlot(starts)] =
                        [pc |-> IF recordingRef # NoRec THEN "stopPrev"
                                ELSE "settle",
                         rec |-> recordingRef, src |-> src]]
       /\ last' = "StartBegun"
       /\ UNCHANGED <<wsState, wsConnected, mounted, isMuted, recording,
                      recordingRef, lastProcessedSize, live, bufSize, nextRec,
                      stops, ticks, sent>>

\* The await inside stopRecording(false) resolves or throws; stopRecording
\* catches, its finally leaves isListening alone, and startRecording goes on
\* to its settle delay.
StartStopPrev(s) ==
    /\ starts[s].pc = "stopPrev"
    /\ starts' = [starts EXCEPT ![s].pc = "settle", ![s].rec = NoRec]
    /\ isListening' = StopFinally(FALSE)
    /\ \/ /\ live' = live \ {starts[s].rec}
          /\ recording' = NoRec
          /\ lastProcessedSize' = 0
          /\ last' = "StopPrevDone"
       \/ /\ last' = "StopPrevFailed"
          /\ UNCHANGED <<live, recording, lastProcessedSize>>
    /\ UNCHANGED <<wsState, wsConnected, mounted, isMuted, recordingRef,
                   meterInterval, timers, bufSize, nextRec, stops, ticks, sent>>
    /\ UNCHANGED batchVars

\* The 300 ms timeout fires: lastProcessedSize.current = 0, then
\* Audio.setAudioModeAsync is called.
StartSettle(s) ==
    /\ starts[s].pc = "settle"
    /\ starts' = [starts EXCEPT ![s].pc = "audioMode"]
    /\ lastProcessedSize' = 0
    /\ last' = "Settled"
    /\ UNCHANGED <<wsState, wsConnected, mounted, isListening, isMuted,
                   recording, recordingRef, meterInterval, timers, live,
                   bufSize, nextRec, stops, ticks, sent>>
    /\ UNCHANGED batchVars

\* startRecording's catch block, reached from a throwing await.
StartFails(s) ==
    /\ starts' = [starts EXCEPT ![s] = IdleCall]
    /\ isListening' = StartCatch
    /\ isMuted' = AfterToggle(starts[s].src, TRUE)
    /\ last' = "StartFailed"
    /\ UNCHANGED <<wsState, wsConnected, mounted, recording, recordingRef,
                   meterInterval, lastProcessedSize, timers, live, bufSize,
                   nextRec, stops, ticks, sent>>

\* await Audio.setAudioModeAsync(...) resolves (createAsync is called) or throws.
StartAudioMode(s) ==
    /\ starts[s].pc = "audioMode"
    /\ \/ /\ starts' = [starts EXCEPT ![s].pc = "create"]
          /\ last' = "AudioModeSet"
          /\ UNCHANGED <<wsState, wsConnected, mounted, isListening, isMuted,
                         recording, recordingRef, meterInterval,
                         lastProcessedSize, timers, live, bufSize, nextRec,
                         stops, ticks, sent>>
       \/ StartFails(s)
    /\ UNCHANGED batchVars

\* await Audio.Recording.createAsync(...) resolves or throws.  On success:
\* setRecording(recorderInstance) and meterInterval.current = setInterval(...).
\* The interval armed for recording r is timer r.
StartCreate(s) ==
    /\ starts[s].pc = "create"
    /\ \/ /\ live' = live \cup {nextRec}
          /\ nextRec' = nextRec + 1
          /\ recording' = nextRec
          /\ meterInterval' = nextRec
          /\ timers' = timers \cup {nextRec}
          /\ starts' = [starts EXCEPT ![s] = IdleCall]
          /\ isMuted' = AfterToggle(starts[s].src, TRUE)
          /\ last' = "StartDone"
          /\ UNCHANGED <<wsState, wsConnected, mounted, isListening,
                         recordingRef, lastProcessedSize, bufSize, stops,
                         ticks, sent>>
       \/ StartFails(s)
    /\ UNCHANGED batchVars

\* ---- the chunk timer (the setInterval callback) ------------------------------
\* A callback that sends fullAudioData instead of newData.
AudioDataWhole(r, from, to) ==
    [type |-> "audio_data", rec |-> r, from |-> 0, to |-> to,
     during |-> r \in live]

\* { type: "audio_data", audio: Array.from(newData) }, newData being
\* fullAudioData.slice(lastProcessedSize.current) of recording r's file.
AudioData(r, from, to) ==
    [type |-> "audio_data", rec |-> r, from |-> from, to |-> to,
     during |-> r \in live]

StartConversation ==
    [type |-> "start_conversation", rec |-> NoRec, from |-> 0, to |-> 0,
     during |-> FALSE]

\* A callback that moves the counter before it sends: a throwing send leaves
\* it advanced.
TickCatchAfterAdvance(r) ==
    IF bufSize[r] > lastProcessedSize THEN bufSize[r] ELSE lastProcessedSize

\* catch (error) { console.error(...) }: the counter keeps its value.
TickCatch(r) == lastProcessedSize

\* How many timer callbacks are suspended, over all recordings.
InFlightTicks ==
    Cardinality({p \in RecIds \X (1..MaxTicks) : p[2] <= ticks[p[1]]})

\* An armed interval fires.  The callback goes on to its awaits (getURI,
\* fetch) only if recordingRef.current is set and the socket is OPEN.
TickFire ==
    /\ timers # {}
    /\ \/ /\ recordingRef # NoRec
          /\ wsState = "OPEN"
          /\ InFlightTicks < MaxTicks
          /\ ticks' = [ticks EXCEPT ![recordingRef] = @ + 1]
          /\ last' = "TickBegun"
       \/ /\ ~(recordingRef # NoRec /\ wsState = "OPEN")
          /\ last' = "TickSkipped"
          /\ UNCHANGED ticks
    /\ UNCHANGED <<wsState, wsConnected, mounted, isListening, isMuted,
                   recording, recordingRef, meterInterval, lastProcessedSize,
                   timers, live, bufSize, nextRec, starts, stops, sent>>
    /\ UNCHANGED batchVars

\* The callback's awaits (getURI, fetch, arrayBuffer) on the file of recording
\* r resolve with the bytes the file holds, or one of them throws; the rest of
\* the callback runs in the same turn.  (A recording that createAsync returned
\* has a URI, so the "if (uri)" test passes.)  ws.current.send may throw; on a
\* socket that is no longer OPEN it otherwise transmits nothing, silently.
TickDeliver(r) ==
    /\ ticks[r] > 0
    /\ ticks' = [ticks EXCEPT ![r] = @ - 1]
    /\ \/ /\ bufSize[r] > lastProcessedSize
          /\ wsState = "OPEN"
          /\ Len(sent) < MaxSent
          /\ sent' = Append(sent, AudioData(r, lastProcessedSize, bufSize[r]))
          /\ lastProcessedSize' = bufSize[r]
          /\ last' = "TickSent"
       \/ /\ bufSize[r] > lastProcessedSize
          /\ wsState # "OPEN"
          /\ lastProcessedSize' = bufSize[r]
          /\ last' = "TickDropped"
          /\ UNCHANGED sent
       \/ /\ bufSize[r] <= lastProcessedSize
          /\ last' = "TickEmpty"
          /\ UNCHANGED <<sent, lastProcessedSize>>
       \/ /\ lastProcessedSize' = TickCatch(r)
          /\ last' = "TickFailed"
          /\ UNCHANGED sent
    /\ UNCHANGED <<wsState, wsConnected, mounted, isListening, isMuted,
                   recording, recordingRef, meterInterval, timers, live,
                   bufSize, nextRec, starts, stops>>
    /\ UNCHANGED batchVars

\* ---- the socket -------------------------------------------------------------
\* An onopen that sets the flag and sends no handshake.
OnOpenSendSkipped == sent

\* if (ws.current?.readyState === WebSocket.OPEN) ws.current.send(...): the
\* open event is dispatched with readyState OPEN, where send() transmits.
OnOpenSend == Append(sent, StartConversation)

\* onopen: setWsConnected(true) and the start_conversation handshake.
WsOpen ==
    /\ wsState = "CONNECTING"
    /\ Len(sent) < MaxSent
    /\ wsState' = "OPEN"
    /\ wsConnected' = TRUE
    /\ sent' = OnOpenSend
    /\ last' = "WsOpen"
    /\ UNCHANGED <<mounted, isListening, isMuted, recording, recordingRef,
                   meterInterval, lastProcessedSize, timers, live, bufSize,
                   nextRec, starts, stops, ticks>>
    /\ UNCHANGED batchVars

\* onerror: setWsConnected(false).
WsError ==
    /\ wsState \in {"CONNECTING", "OPEN"}
    /\ wsState' = "ERRORED"
    /\ wsConnected' = FALSE
    /\ last' = "WsError"
    /\ UNCHANGED <<mounted, isListening, isMuted, recording, recordingRef,
                   meterInterval, lastProcessedSize, timers, live, bufSize,
                   nextRec, starts, stops, ticks, sent>>
    /\ UNCHANGED batchVars

\* onclose: setWsConnected(false); setIsListening(false).
WsClose ==
    /\ wsState \in {"CONNECTING", "OPEN", "ERRORED", "CLOSING"}
    /\ wsState' = "CLOSED"
    /\ wsConnected' = FALSE
    /\ isListening' = FALSE
    /\ last' = "WsClose"
    /\ UNCHANGED <<mounted, isMuted, recording, recordingRef, meterInterval,
                   lastProcessedSize, timers, live, bufSize, nextRec, starts,
                   stops, ticks, sent>>
    /\ UNCHANGED batchVars

\* A switch with a default case that stops the recording.
SwitchDefaultStops(type) ==
    CASE type = "start_listening" -> "start"
      [] type = "stop_listening" -> "stop"
      [] OTHER -> "stop"

\* switch (data.type): the two commands call startRecording() and
\* stopRecording(); the transcript cases only log, and there is no default.
Switch(type) ==
    CASE type = "start_listening" -> "start"
      [] type = "stop_listening" -> "stop"
      [] OTHER -> "none"

\* onmessage, for a message that JSON.parse accepts.
WsMessage(type) ==
    /\ wsState = "OPEN"
    /\ CASE Switch(type) = "start" -> StartRecording("ws")
         [] Switch(type) = "stop" -> StopRecording("ws")
         [] OTHER -> /\ last' = "MsgOther"
                     /\ UNCHANGED <<wsState, wsConnected, mounted, isListening,
                                    isMuted, recording, recordingRef,
                                    meterInterval, lastProcessedSize, timers,
                                    live, bufSize, nextRec, starts, stops,
                                    ticks, sent>>
    /\ UNCHANGED batchVars

MessageTypes ==
    {"start_listening", "stop_listening", "interim_transcript",
     "final_transcript", "unknown"}

\* onmessage, for a text that JSON.parse rejects (or that parses to null, so
\* that data.type throws): the statement is outside any try block, and the
\* exception leaves the handler.  No state is written before it.
WsMessageMalformed ==
    /\ wsState = "OPEN"
    /\ last' = "MsgThrew"
    /\ UNCHANGED <<wsState, wsConnected, mounted, isListening, isMuted,
                   recording, recordingRef, meterInterval, lastProcessedSize,
                   timers, live, bufSize, nextRec, starts, stops, ticks, sent>>
    /\ UNCHANGED batchVars

\* ---- the user ----------------------------------------------------------------
ToggleMute ==
    /\ mounted
    /\ IF isMuted THEN StartRecording("toggle") ELSE StopRecording("toggle")
    /\ UNCHANGED batchVars

\* The mount effect's cleanup: stopRecording(), clearInterval(meterInterval
\* .current) (already null by then) and ws.current.close().
Unmount ==
    /\ mounted
    /\ mounted' = FALSE
    /\ wsState' = IF wsState \in {"CONNECTING", "OPEN"} THEN "CLOSING"
                  ELSE wsState
    /\ timers' = ClearedTimers
    /\ meterInterval' = NoRec
    /\ \/ /\ recordingRef # NoRec
          /\ FreeSlot(stops) # 0
          /\ stops' = [stops EXCEPT ![FreeSlot(stops)] =
                          [pc |-> "unload", rec |-> recordingRef,
                           src |-> "unmount"]]
          /\ UNCHANGED isListening
       \/ /\ recordingRef = NoRec
          /\ isListening' = StopFinally(TRUE)
          /\ UNCHANGED stops
    /\ last' = "Unmount"
    /\ UNCHANGED <<wsConnected, isMuted, recording, recordingRef,
                   lastProcessedSize, live, bufSize, nextRec, starts, ticks,
                   sent>>
    /\ UNCHANGED batchVars

\* The socket, the user and the start/stop calls.
ControlNext ==
    \/ WsOpen
    \/ WsError
    \/ WsClose
    \/ \E type \in MessageTypes : WsMessage(type)
    \/ WsMessageMalformed
    \/ ToggleMute
    \/ Unmount
    \/ RecordingRefEffect
    \/ \E s \in StartSlots : StartStopPrev(s)
    \/ \E s \in StartSlots : StartSettle(s)
    \/ \E s \in StartSlots : StartAudioMode(s)
    \/ \E s \in StartSlots : StartCreate(s)
    \/ \E p \in StopSlots : StopUnload(p)

\* The microphone and the chunk timer.
ChunkNext ==
    \/ \E r \in RecIds : Capture(r)
    \/ TickFire
    \/ \E r \in RecIds : TickDeliver(r)

\* ==== the batch script (src/unnamed/part_000) ================================
\* A Node script: it opens a socket to the realtime API and, when the socket
\* opens, decodes ./output.wav, converts channel 0 to PCM16, encodes it in
\* base64 and sends it as one conversation.item.create followed by a
\* response.create.
\*
\* A sample of the Float32Array is the rational n / Scale, or NaN.
Scale == 4         \* samples are multiples of 1/Scale
MaxSample == 6     \* samples range over -MaxSample/Scale .. MaxSample/Scale
MaxSamples == 3    \* samples in the decoded file
chunkSize == 4     \* bytes per String.fromCharCode call (0x8000 in the source)

NegFactor == 32768 \* 0x8000
PosFactor == 32767 \* 0x7fff

Num(n) == [nan |-> FALSE, n |-> n]
NaN == [nan |-> TRUE, n |-> 0]
Samples == {Num(n) : n \in (0 - MaxSample)..MaxSample} \cup {NaN}

\* The value null, and a string given by its characters.
Null == [null |-> TRUE, str |-> <<>>]
Str(s) == [null |-> FALSE, str |-> s]

\* JavaScript's ToBoolean of a string-or-null: null and "" are falsy.
Truthy(v) == ~v.null /\ v.str # <<>>

\* Math.max(-1, Math.min(1, x)), in units of 1/Scale; NaN stays NaN.
Clamp(x) ==
    IF x.nan THEN x
    ELSE Num(IF x.n > Scale THEN Scale
             ELSE IF x.n < 0 - Scale THEN 0 - Scale ELSE x.n)

\* s < 0 ? s * 0x8000 : s * 0x7fff, as the numerator of a fraction over Scale
\* (NaN < 0 is false and NaN * 0x7fff is NaN).
Scaled(s) ==
    IF s.nan THEN s
    ELSE Num(IF s.n < 0 THEN s.n * NegFactor ELSE s.n * PosFactor)

\* ToInt16 of the number v.n / Scale, as DataView.setInt16 applies it: NaN
\* gives 0, a fraction is truncated toward zero, then taken modulo 2^16 into
\* -32768 .. 32767.
ToInt16(v) ==
    IF v.nan THEN 0
    ELSE LET t == IF v.n < 0 THEN 0 - ((0 - v.n) \div Scale)
                  ELSE v.n \div Scale
             u == t % 65536
         IN  IF u >= 32768 THEN u - 65536 ELSE u

\* The two bytes setInt16(offset, value, littleEndian) stores.
SetInt16(value, littleEndian) ==
    LET u == (value + 65536) % 65536
    IN  IF littleEndian THEN <<u % 256, u \div 256>>
        ELSE <<u \div 256, u % 256>>

\* A conversion that scales both signs by 0x8000.
floatTo16BitPCMOneFactor(float32Array) ==
    [j \in 1..(2 * Len(float32Array)) |->
        LET s == Clamp(float32Array[(j + 1) \div 2])
            v == IF s.nan THEN s ELSE Num(s.n * NegFactor)
        IN  SetInt16(ToInt16(v), TRUE)[((j - 1) % 2) + 1]]

\* floatTo16BitPCM: two bytes per sample, at offset 2 * i.
floatTo16BitPCM(float32Array) ==
    [j \in 1..(2 * Len(float32Array)) |->
        SetInt16(ToInt16(Scaled(Clamp(float32Array[(j + 1) \div 2]))),
                 TRUE)[((j - 1) % 2) + 1]]

Min(a, b) == IF a < b THEN a ELSE b

\* typedArray.subarray(begin, end): the elements begin .. end - 1 (0-based),
\* end clamped to the length.
Subarray(array, begin, end) ==
    SubSeq(array, begin + 1, Min(end, Len(array)))

\* String.fromCharCode.apply(null, chunk): one UTF-16 code unit per element.
FromCharCode(chunk) == [j \in 1..Len(chunk) |-> chunk[j] % 65536]

\* Buffer.from(binary, 'binary'): one byte per character, its low 8 bits.
BufferFromBinary(string) == [j \in 1..Len(string) |-> string[j] % 256]

\* The base64 alphabet is 0 .. 63, by index; Pad is "=".
Pad == 64

\* buffer.toString('base64'): each group of three bytes gives four characters;
\* a last group of one or two bytes is padded.
ToBase64(buffer) ==
    LET n == Len(buffer)
        At(k) == IF k <= n THEN buffer[k] ELSE 0
    IN  [j \in 1..(4 * ((n + 2) \div 3)) |->
            LET q == (j - 1) \div 4
                pos == (j - 1) % 4
                w == At(3 * q + 1) * 65536 + At(3 * q + 2) * 256 + At(3 * q + 3)
            IN  IF pos = 0 THEN w \div 262144
                ELSE IF pos = 1 THEN (w \div 4096) % 64
                ELSE IF pos = 2
                     THEN IF 3 * q + 2 > n THEN Pad ELSE (w \div 64) % 64
                ELSE IF 3 * q + 3 > n THEN Pad ELSE w % 64]

\* Base64 decoding (what the receiver does with the audio field): four
\* characters give three bytes, less one per "=".
FromBase64(string) ==
    LET m == Len(string)
        pads == Cardinality({j \in 1..m : string[j] = Pad})
        Sym(k) == IF string[k] = Pad THEN 0 ELSE string[k]
    IN  [j \in 1..(3 * (m \div 4) - pads) |->
            LET q == (j - 1) \div 3
                r == (j - 1) % 3
                w == Sym(4 * q + 1) * 262144 + Sym(4 * q + 2) * 4096
                     + Sym(4 * q + 3) * 64 + Sym(4 * q + 4)
            IN  IF r = 0 THEN w \div 65536
                ELSE IF r = 1 THEN (w \div 256) % 256
                ELSE w % 256]

\* The messages of the script.
ItemCreate(audio) == [type |-> "conversation.item.create", audio |-> audio]
ResponseCreate == [type |-> "response.create", audio |-> <<>>]

BatchInit ==
    /\ node = "connecting"
    /\ nodeWs = "CONNECTING"
    /\ channelData \in UNION {[1..n -> Samples] : n \in 0..MaxSamples}
    /\ bytes = <<>>
    /\ loopI = 0
    /\ binary = <<>>
    /\ base64AudioData = Null
    /\ wire = <<>>

\* The script is not running.
BatchOff ==
    /\ node = "off"
    /\ nodeWs = "CLOSED"
    /\ channelData = <<>>
    /\ bytes = <<>>
    /\ loopI = 0
    /\ binary = <<>>
    /\ base64AudioData = Null
    /\ wire = <<>>

\* ws.on('open'): the handler calls processAudio, whose fs.readFileSync
\* returns the file (decodeAudio is awaited) or throws (processAudio catches
\* and returns null).
NodeOpen ==
    /\ node = "connecting"
    /\ nodeWs = "CONNECTING"
    /\ nodeWs' = "OPEN"
    /\ \/ node' = "decoding"
       \/ node' = "resume"
    /\ UNCHANGED <<channelData, bytes, loopI, binary, base64AudioData, wire>>
    /\ UNCHANGED vars

\* The socket fails or is closed by the server while the script waits: the
\* error and close handlers only log.  (The continuations of processAudio run
\* as microtasks, which no socket event interrupts.)
NodeClose ==
    /\ node \in {"connecting", "decoding", "done"}
    /\ nodeWs \in {"CONNECTING", "OPEN"}
    /\ nodeWs' = "CLOSED"
    /\ UNCHANGED <<node, channelData, bytes, loopI, binary, base64AudioData,
                   wire>>
    /\ UNCHANGED vars

\* await decodeAudio(myAudio) resolves, and base64EncodeAudio(channelData)
\* begins with floatTo16BitPCM; or it rejects, and processAudio returns null.
DecodeAudio ==
    /\ node = "decoding"
    /\ \/ /\ bytes' = floatTo16BitPCM(channelData)
          /\ node' = "chunking"
       \/ /\ node' = "resume"
          /\ UNCHANGED bytes
    /\ UNCHANGED <<nodeWs, channelData, loopI, binary, base64AudioData, wire>>
    /\ UNCHANGED vars

\* A loop that steps by chunkSize and cuts chunks one byte short.
ChunkShort == Subarray(bytes, loopI, loopI + chunkSize - 1)

\* let chunk = bytes.subarray(i, i + chunkSize)
Chunk == Subarray(bytes, loopI, loopI + chunkSize)

\* for (let i = 0; i < bytes.length; i += chunkSize) binary += ...; and after
\* the loop, return Buffer.from(binary, 'binary').toString('base64').
EncodeChunk ==
    /\ node = "chunking"
    /\ \/ /\ loopI < Len(bytes)
          /\ binary' = binary \o FromCharCode(Chunk)
          /\ loopI' = loopI + chunkSize
          /\ UNCHANGED <<node, base64AudioData>>
       \/ /\ loopI >= Len(bytes)
          /\ base64AudioData' = Str(ToBase64(BufferFromBinary(binary)))
          /\ node' = "resume"
          /\ UNCHANGED <<binary, loopI>>
    /\ UNCHANGED <<nodeWs, channelData, bytes, wire>>
    /\ UNCHANGED vars

\* if (base64AudioData) ws.send(audioEvent) else console.error(...); then
\* ws.send(textEvent), in either case.
Sends(audio) ==
    (IF Truthy(audio) THEN <<ItemCreate(audio.str)>> ELSE <<>>)
    \o <<ResponseCreate>>

\* The open handler resumes from await processAudio(...).  ws.send on a
\* socket that is no longer open throws, and nothing is transmitted.
OpenHandlerResume ==
    /\ node = "resume"
    /\ \/ /\ nodeWs = "OPEN"
          /\ wire' = wire \o Sends(base64AudioData)
          /\ node' = "done"
       \/ /\ nodeWs # "OPEN"
          /\ node' = "threw"
          /\ UNCHANGED wire
    /\ UNCHANGED <<nodeWs, channelData, bytes, loopI, binary, base64AudioData>>
    /\ UNCHANGED vars

BatchNext ==
    \/ NodeOpen
    \/ NodeClose
    \/ DecodeAudio
    \/ EncodeChunk
    \/ OpenHandlerResume

\* The script alone; the decoded file is any sample sequence within the bounds.
ScriptInit == Init /\ BatchInit

BatchSpec == ScriptInit /\ [][BatchNext]_allVars

\* ==== the specifications ====================================================
Next == ControlNext \/ ChunkNext

\* The component; the script is not running.
CompInit == Init /\ BatchOff

Spec == CompInit /\ [][Next]_allVars

TypeOK ==
    /\ wsState \in {"CONNECTING", "OPEN", "ERRORED", "CLOSING", "CLOSED"}
    /\ recording \in RecIds \cup {NoRec}
    /\ recordingRef \in RecIds \cup {NoRec}
    /\ meterInterval \in RecIds \cup {NoRec}
    /\ timers \subseteq RecIds
    /\ live \subseteq RecIds
    /\ lastProcessedSize \in 0..MaxBuf
    /\ nextRec \in 1..(MaxRec + 1)
    /\ Len(sent) <= MaxSent

\* ---- properties --------------------------------------------------------------
TickEvents == {"TickBegun", "TickSkipped", "TickSent", "TickDropped",
               "TickEmpty", "TickFailed"}

\* Recordings some suspended stopRecording call is tearing down.
StoppingRecs ==
    {stops[p].rec : p \in {q \in StopSlots : stops[q].pc = "unload"}}
    \cup {starts[s].rec : s \in {q \in StartSlots : starts[q].pc = "stopPrev"}}

\* C1: at most one capture session (a recording created and not yet
\* stopped-and-unloaded) exists at any instant.
C1_AtMostOneSession == Cardinality(live) <= 1

\* The audio_data chunks read from recording r's file and sent while r was
\* live, as positions of the wire log.
SessionChunks(r) ==
    {i \in 1..Len(sent) :
        sent[i].type = "audio_data" /\ sent[i].rec = r /\ sent[i].during}

\* C2: the chunks sent during a session, in emission order, are a gapless,
\* overlap-free prefix of its byte stream: the first starts at offset 0 and
\* each next one where the previous one ended.
C2_ChunksContiguous ==
    \A r \in RecIds : \A i \in SessionChunks(r) :
        LET earlier == {j \in SessionChunks(r) : j < i}
        IN  IF earlier = {} THEN sent[i].from = 0
            ELSE sent[i].from =
                     sent[CHOOSE j \in earlier : \A k \in earlier : k <= j].to

\* C3: while one session stays the current one, the sent-offset counter never
\* decreases and never exceeds the size of that session's captured buffer.
C3_OffsetMonotoneBounded ==
    [][\A r \in RecIds :
          (r \in live /\ r \in live' /\ recording = r /\ recording' = r)
          => /\ lastProcessedSize' >= lastProcessedSize
             /\ lastProcessedSize' <= bufSize'[r]]_vars

\* C4: a start request that arrives while a start is in progress or the
\* controller is listening changes nothing: no new call, no session stopped or
\* created, no timer cleared or armed, counter and flag untouched.
C4_StartWhileBusyIsNoop ==
    [][(last' \in {"StartBegun", "StartIgnored"}
        /\ (isListening \/ InFlightStarts > 0))
       => UNCHANGED <<starts, live, timers, meterInterval, lastProcessedSize,
                      isListening, recording>>]_vars

\* C5: stop() clears the timer before it awaits the release, and while it
\* awaits no timer callback begins its work on the recording being torn down,
\* unless a timer was armed after that recording was created (timer ids grow
\* with the recordings they were armed for, so such a timer is a newer one).
C5_NoTickAgainstStoppingSession ==
    [][/\ last' = "StopBegun" => (meterInterval' = NoRec
                                   /\ meterInterval \notin timers')
       /\ (last' = "TickBegun" /\ recordingRef \in StoppingRecs)
          => \E t \in timers : t > recordingRef]_vars

\* C6: when a stop() with resetListening = true has completed, no timer is
\* armed, the handle is null, no session exists, the counter is 0 and the
\* controller is idle.
C6_StopLeavesIdle ==
    (mounted /\ last = "StopDone")
    => /\ meterInterval = NoRec
       /\ timers = {}
       /\ live = {}
       /\ lastProcessedSize = 0
       /\ ~isListening

StartStep(s) ==
    StartStopPrev(s) \/ StartSettle(s) \/ StartAudioMode(s) \/ StartCreate(s)

\* Every await of startRecording settles: the platform promises resolve or
\* reject and the 300 ms timeout fires.  The microphone and the chunk timer
\* write only bufSize, ticks, lastProcessedSize and sent, none of which a
\* start or stop step reads, so the progress of the calls is checked on the
\* control steps alone.
FairSpec ==
    /\ CompInit
    /\ [][ControlNext]_allVars
    /\ \A s \in StartSlots : WF_vars(StartStep(s))

\* C7 as stated: whichever step of start() raises (stopping the stale
\* session included), the listening flag is reset.
C7_AnyStartFailureResets ==
    [][last' \in {"StopPrevFailed", "StartFailed"} => ~isListening']_vars

\* C7 as amended: a failure of setAudioModeAsync or createAsync ends the call
\* with the listening flag reset; a failure while stopping the stale session
\* is caught inside stopRecording(false), which leaves the flag alone, and the
\* call goes on; every call eventually returns.
C7_StartFailureHandled ==
    /\ [][/\ last' = "StartFailed"
             => (~isListening' /\ InFlightStarts' = InFlightStarts - 1)
          /\ last' = "StopPrevFailed"
             => (isListening' = isListening
                 /\ InFlightStarts' = InFlightStarts)]_vars
    /\ \A s \in StartSlots :
          (starts[s].pc # "idle") ~> (starts[s].pc = "idle")

C7_Witness == last = "StartFailed" /\ ~isListening /\ InFlightStarts = 0

\* C8: stop() clears the timer and nulls the handle before it awaits the
\* release; when the release throws, that is not undone and the listening
\* flag is reset (resetListening = true).
C8_StopCleanupOnFailure ==
    [][/\ last' = "StopBegun" => (meterInterval' = NoRec
                                   /\ meterInterval \notin timers')
       /\ last' = "StopFailed"
          => (~isListening' /\ UNCHANGED <<timers, meterInterval>>)]_vars

C8_Witness ==
    last = "StopFailed" /\ ~isListening /\ meterInterval = NoRec /\ live # {}

\* C9: while the socket is not OPEN nothing is transmitted and no timer
\* callback advances the sent-offset counter.
C9_NothingUnlessOpen ==
    [][wsState' # "OPEN"
       => /\ sent' = sent
          /\ last' \in TickEvents => lastProcessedSize' = lastProcessedSize]_vars

\* C10: a timer callback whose read or send throws leaves the counter and the
\* wire alone, and a callback that sends, sends the bytes from the counter's
\* value on and moves the counter to their end.
C10_FailedTickKeepsOffset ==
    [][/\ last' = "TickFailed"
          => (lastProcessedSize' = lastProcessedSize /\ sent' = sent)
       /\ last' = "TickSent"
          => /\ Len(sent') = Len(sent) + 1
             /\ sent'[Len(sent')].type = "audio_data"
             /\ sent'[Len(sent')].from = lastProcessedSize
             /\ sent'[Len(sent')].to = lastProcessedSize'
             /\ lastProcessedSize' > lastProcessedSize]_vars

C10_Witness ==
    /\ last = "TickFailed"
    /\ recordingRef \in live
    /\ lastProcessedSize > 0
    /\ lastProcessedSize < bufSize[recordingRef]


\* C11: the start_conversation handshake is sent in the step in which the
\* connection opens, and every audio_data message on the wire has a
\* start_conversation before it, also for a session that was started locally
\* before the connection opened.
C11_HandshakeBeforeAudio ==
    [][/\ (wsState # "OPEN" /\ wsState' = "OPEN") =>
              /\ Len(sent') = Len(sent) + 1
              /\ sent'[Len(sent')].type = "start_conversation"
       /\ \A i \in 1..Len(sent') :
              sent'[i].type = "audio_data" =>
                  \E j \in 1..(i - 1) : sent'[j].type = "start_conversation"
      ]_vars

\* The socket has just opened on a session that toggleMute started while it
\* was connecting: the timer is armed and audio is captured and unsent, and
\* the only message on the wire is the handshake.
C11_Witness ==
    /\ last = "WsOpen"
    /\ recordingRef \in live
    /\ meterInterval \in timers
    /\ bufSize[recordingRef] > 0
    /\ sent = <<StartConversation>>

\* The server's start_listening has just been taken up by a controller with no
\* session, no timer and no other call in flight: the controller is Starting.
StartingFromIdle ==
    /\ last = "StartBegun"
    /\ mounted
    /\ isListening
    /\ InFlightStarts = 1
    /\ \E s \in StartSlots : starts[s].pc = "settle" /\ starts[s].src = "ws"
    /\ \A p \in StopSlots : stops[p].pc = "idle"
    /\ live = {}
    /\ timers = {}
    /\ recording = NoRec
    /\ recordingRef = NoRec

\* A start call has just created its recording and the controller is
\* Listening: the flag is set, one session exists, its timer is the armed one
\* and the counter is 0.
ListeningOne ==
    /\ last = "StartDone"
    /\ isListening
    /\ Cardinality(live) = 1
    /\ recording \in live
    /\ meterInterval \in timers
    /\ lastProcessedSize = 0

\* A stop request (stop_listening, toggleMute, unmount) or a failing device
\* call has occurred.
Intervened ==
    last \in {"StopBegun", "StopDone", "StopFailed", "Unmount", "StartFailed",
              "StopPrevFailed"}

\* C12: a start_listening taken up while Idle leads, unless a stop request or
\* a device failure intervenes, to Listening with exactly one session, the
\* counter 0 at its creation and the timer armed.
C12_StartReachesListening == StartingFromIdle ~> (ListeningOne \/ Intervened)

\* The message types that are not commands.
OtherTypes == MessageTypes \ {"start_listening", "stop_listening"}

\* C13: a step in which onmessage handles a message that is neither
\* start_listening nor stop_listening leaves the listening flag, the session,
\* the timer, the counter and the suspended calls as they are, and sends
\* nothing.
C13_OtherMessageIgnored ==
    [][(\E type \in OtherTypes : WsMessage(type)) =>
           UNCHANGED <<isListening, isMuted, recording, recordingRef,
                       meterInterval, timers, live, lastProcessedSize, starts,
                       stops, ticks, sent, wsState>>]_vars

\* A transcript or unknown message has just been handled in the middle of a
\* session: the timer is armed and part of the audio has been sent.
C13_Witness ==
    /\ last = "MsgOther"
    /\ isListening
    /\ recordingRef \in live
    /\ meterInterval \in timers
    /\ lastProcessedSize > 0

\* The handler segments that end in a catch block of the component.
CaughtEvents == {"StartFailed", "StopPrevFailed", "StopFailed", "TickFailed"}

\* The handler segments that end with the exception leaving the handler.
EscapedEvents == {"MsgThrew"}

\* C14: no handler ends with its failure uncaught, whatever text arrives on
\* the socket and whichever device or socket call fails.
C14_NoFailureEscapes == last \notin EscapedEvents

\* C15: a socket error or close event changes only the connection state: the
\* session, the timer, the counter and the listening flag stay as they are;
\* and a connection that is closed or errored is never open again.
C15_SocketEventsOnlyConnection ==
    [][/\ last' \in {"WsError", "WsClose"} =>
              /\ wsState' \in {"ERRORED", "CLOSED"}
              /\ UNCHANGED <<isListening, recording, recordingRef,
                             meterInterval, timers, live, lastProcessedSize,
                             starts, stops, sent>>
       /\ wsState \in {"ERRORED", "CLOSED"} => wsState' # "OPEN"
      ]_vars

\* C16: every response.create the script sent has exactly one
\* conversation.item.create before it on the connection.
C16_ItemBeforeResponse ==
    \A k \in 1..Len(wire) :
        wire[k].type = "response.create" =>
            Cardinality({j \in 1..(k - 1) :
                            wire[j].type = "conversation.item.create"}) = 1

\* The k-th 16-bit sample of a PCM buffer, read little-endian and signed.
Int16LE(buffer, k) ==
    LET u == buffer[2 * k - 1] + 256 * buffer[2 * k]
    IN  IF u >= 32768 THEN u - 65536 ELSE u

\* floatTo16BitPCM has run on the decoded file.
Converted ==
    /\ node \in {"chunking", "resume", "done", "threw"}
    /\ Len(bytes) = 2 * Len(channelData)

\* round(x) of the fraction n / Scale: the integer nearest to it, a half going
\* up.
Round(n) ==
    IF n >= 0 THEN (2 * n + Scale) \div (2 * Scale)
    ELSE 0 - ((2 * (0 - n) + Scale - 1) \div (2 * Scale))

\* C17 as stated: every sample s, clamped to [-1, 1], is written as
\* round(s * 32768) when s < 0 and round(s * 32767) otherwise, little-endian
\* (so that [0.5, -1.0, 1.0] gives [16384, -32768, 32767]).
C17_RoundedPCM ==
    Converted =>
        \A k \in 1..Len(channelData) :
            ~channelData[k].nan =>
                Int16LE(bytes, k) = Round(Scaled(Clamp(channelData[k])).n)

\* C17, amended: the scaled sample is truncated toward zero, not rounded.  The
\* value v written for the clamped sample c / Scale is the integer with
\* v <= c * 32767 / Scale < v + 1 when c >= 0, and with
\* v - 1 < c * 32768 / Scale <= v when c < 0; NaN is written as 0; the low
\* byte comes first.
C17_TruncatedPCM ==
    Converted =>
        \A k \in 1..Len(channelData) :
            LET x == channelData[k]
                c == IF x.n > Scale THEN Scale
                     ELSE IF x.n < 0 - Scale THEN 0 - Scale ELSE x.n
                v == Int16LE(bytes, k)
            IN  /\ bytes[2 * k - 1] = v % 256
                /\ IF x.nan THEN v = 0
                   ELSE IF c >= 0
                        THEN /\ v * Scale <= c * 32767
                             /\ c * 32767 < (v + 1) * Scale
                        ELSE /\ (v - 1) * Scale < c * 32768
                             /\ c * 32768 <= v * Scale

\* The samples 0.5, -1.0, 1.0 have been converted: to 16383, -32768, 32767.
C17_Witness ==
    /\ Converted
    /\ Len(channelData) = 3
    /\ \A k \in 1..3 : ~channelData[k].nan
    /\ 2 * channelData[1].n = Scale
    /\ channelData[2].n = 0 - Scale
    /\ channelData[3].n = Scale
    /\ Int16LE(bytes, 1) = 16383
    /\ Int16LE(bytes, 2) = 0 - 32768
    /\ Int16LE(bytes, 3) = 32767

\* base64EncodeAudio has returned its string.
Encoded ==
    /\ node \in {"resume", "done", "threw"}
    /\ ~base64AudioData.null

\* C18: decoding the string base64EncodeAudio returned gives back the bytes
\* of the buffer, all of them and in order, whether the buffer is empty,
\* shorter than a chunk, exactly one chunk, or longer.
C18_Base64RoundTrip ==
    Encoded => FromBase64(base64AudioData.str) = bytes

\* A buffer longer than one chunk has been encoded in two pieces and decodes
\* to itself; its length is a multiple of three, so the string has no padding.
C18_Witness ==
    /\ Encoded
    /\ Len(bytes) > chunkSize
    /\ Len(bytes) <= 2 * chunkSize
    /\ loopI = 2 * chunkSize
    /\ \E k \in 1..Len(bytes) : bytes[k] >= 128
    /\ bytes[chunkSize] # bytes[chunkSize + 1]
    /\ Len(base64AudioData.str) = 4 * ((Len(bytes) + 2) \div 3)
    /\ FromBase64(base64AudioData.str) = bytes

\* C19: the step in which stopRecording(false) ends, with the release done or
\* failed, leaves the listening flag as it is (so does the step that begins
\* start(), which sets the flag and runs stopRecording(false) up to its
\* await); every step in which stopRecording(true) ends leaves the flag
\* cleared.
C19_StopResetsOnlyOnRequest ==
    [][/\ last' \in {"StopPrevDone", "StopPrevFailed"} =>
              isListening' = isListening
       /\ last' = "StartBegun" => isListening'
       /\ last' \in {"StopDone", "StopFailed"} => ~isListening'
       /\ (last' = "Unmount" /\ recordingRef = NoRec) => ~isListening'
      ]_vars

\* start() has just come back from a stopRecording(false) whose release
\* failed: the flag is still set and the call is on its way to acquisition.
C19_Witness ==
    /\ last = "StopPrevFailed"
    /\ isListening
    /\ \E s \in StartSlots : starts[s].pc = "settle"
    /\ live # {}

\* C20: a timer callback whose read of recording r's file succeeds while the
\* socket is open sends nothing and leaves the counter alone when the file is
\* no longer than the counter; when it is longer, it appends exactly one
\* audio_data message, carrying the bytes from the counter to the end of the
\* file, and sets the counter to the length it read.
C20_TickSendsDelta ==
    [][\A r \in RecIds :
          (TickDeliver(r) /\ wsState = "OPEN" /\ last' # "TickFailed") =>
              IF bufSize[r] <= lastProcessedSize
              THEN UNCHANGED <<sent, lastProcessedSize>>
              ELSE /\ Len(sent') = Len(sent) + 1
                   /\ SubSeq(sent', 1, Len(sent)) = sent
                   /\ sent'[Len(sent')].type = "audio_data"
                   /\ sent'[Len(sent')].rec = r
                   /\ sent'[Len(sent')].from = lastProcessedSize
                   /\ sent'[Len(sent')].to = bufSize[r]
                   /\ lastProcessedSize' = bufSize[r]
      ]_vars

\* A callback has just found nothing new in the file, after an earlier one
\* sent its first bytes: the counter stands at the end of the file.
C20_Witness ==
    /\ last = "TickEmpty"
    /\ wsState = "OPEN"
    /\ recordingRef \in live
    /\ lastProcessedSize > 0
    /\ lastProcessedSize = bufSize[recordingRef]
    /\ Len(sent) = 2
    /\ sent[2].type = "audio_data"
    /\ sent[2].from = 0
    /\ sent[2].to = lastProcessedSize

\* C21: at most one interval is armed, and an armed interval is the one
\* meterInterval.current refers to, so that one stop() disarms every
\* interval.
C21_SingleReferencedTimer ==
    /\ Cardinality(timers) <= 1
    /\ \A t \in timers : t = meterInterval

\* No startRecording or stopRecording call is suspended.
NoCallInProgress ==
    /\ InFlightStarts = 0
    /\ \A p \in StopSlots : stops[p].pc = "idle"

\* C22: while the component is mounted and no start() or stop() call is in
\* progress, the listening flag is false exactly when no recording is live
\* and no interval is armed.
C22_FlagMatchesResources ==
    (mounted /\ NoCallInProgress) =>
        (~isListening <=> (live = {} /\ timers = {}))

\* C23: once the unmount cleanup has run, the socket is closing or closed and
\* nothing more is sent; and when every call that was in progress has ended
\* (after which no handler can run that would release anything), no
\* recording is live and no interval is armed.
C23_TeardownReleasesAll ==
    [][/\ ~mounted => sent' = sent
       /\ ~mounted' => wsState' \in {"CLOSING", "CLOSED", "ERRORED"}
       /\ (~mounted' /\ NoCallInProgress') => (live' = {} /\ timers' = {})
      ]_vars
====
